---- MODULE Spec2Model ----
(***************************************************************************)
(* State-machine model of the maze generator in src/src/lib.rs: the Grid   *)
(* (struct Maze), the carver (generate / generate_from), the loop          *)
(* injector, the artifact placer, the graph builder and the route search.  *)
(***************************************************************************)
EXTENDS Integers, Sequences, FiniteSets, TLC

VARIABLES
    req_width,      \* width argument of the last Maze::new call
    req_height,     \* height argument of the last Maze::new call
    width,          \* Maze.width
    height,         \* Maze.height
    room_size,      \* Maze.room_size
    exit_type,      \* Maze.exit_type
    cells,          \* Maze.cells, the flat vector indexed by y * width + x
    pc,             \* position of the caller in new / generate / queries
    generated,      \* whether generate() has been called on this Maze
    stack,          \* generate_from: the explicit stack
    visited,        \* generate_from: the visited set
    passes_left,    \* generate: remaining iterations of the wall-removal loop
    removed,        \* walls converted to Path by the wall-removal loop so far
    art,            \* place_artifacts: its locals (counts, occupied set, ...)
    before,         \* the cells as they were when place_artifacts was called
    nodes,          \* build_graph: the returned node map (position -> id)
    edges,          \* build_graph: the returned edge set
    queue,          \* shortest_path: the work list of (pos, path) entries
    seen,           \* shortest_path: its visited set
    route,          \* shortest_path: the returned Option<Vec<Pos>>
    todo,           \* build_graph: the nodes its edge loop has yet to iterate
    returned,       \* the (nodes, edges) pairs build_graph has returned so far
    mst_visited,    \* mst_prim: the visited set of node ids
    mst_edges,      \* mst_prim: the returned edge set
    got             \* the last get(x, y) call and its outcome

vars == <<req_width, req_height, width, height, room_size, exit_type, cells,
          pc, generated, stack, visited, passes_left, removed, art, before,
          nodes, edges, queue, seen, route, todo, returned, mst_visited,
          mst_edges, got>>

\* The fields of Maze that are fixed at construction, with the arguments.
config == <<req_width, req_height, width, height, room_size, exit_type>>

\* The locals and results of the stepwise build_graph, of mst_prim and of get.
query_locals == <<todo, returned, mst_visited, mst_edges, got>>

----------------------------------------------------------------------------
(* Bounds of the model. *)

\* Largest width / height argument tried by the dimension specification.
MaxDim == 24

\* Largest room_size argument tried.
MaxRoomSize == 6

\* The fill ratios tried on the generated 7 x 7 mazes with room_size 3, as
\* numerator and denominator: for their 24 Path cells they ask for no
\* artifact, for one danger and for two dangers.
FillRatios == {<<0, 1>>, <<1, 16>>, <<1, 10>>}

\* The fill ratio tried on the mazes with loops: one danger for their 16 to
\* 18 Path cells.
SparseRatios == {<<1, 10>>}

\* The (width, height) arguments constructed with every room size and every
\* exit side.
GridSizes == {<<7, 7>>}

\* The (width, height, room_size) arguments constructed in addition, with the
\* exit sides of WideExits: a grid that is not square and needs rounding up.
WideGrids == {<<9, 7, 3>>}
WideExits == {"Right", "Top"}

----------------------------------------------------------------------------
(* Cell labels, src/src/lib.rs:27-156. *)

REWARDS == <<"Marshmallows", "GummyBears", "Cookies", "Candy", "Chocolate">>

DANGERS == <<"Zombie", "Ghost", "Witch", "Fog", "Shadows", "Crow", "BlackCat",
             "Skeleton", "Spider", "Bat", "Pumpkin">>

Range(s) == {s[i] : i \in DOMAIN s}

TRAVERSABLE == {"Start", "Exit", "Path"} \cup Range(REWARDS) \cup Range(DANGERS)

CellType == TRAVERSABLE \cup {"Wall"}

ExitLocation == {"Random", "Left", "Right", "Top", "Bottom"}

weight(c) ==
    CASE c = "Start" -> 0
      [] c = "Exit" -> 0
      [] c = "Wall" -> 0
      [] c = "Path" -> 0
      [] c = "Marshmallows" -> -2
      [] c = "GummyBears" -> -3
      [] c = "Cookies" -> -4
      [] c = "Candy" -> -2
      [] c = "Chocolate" -> -6
      [] c = "Zombie" -> 7
      [] c = "Ghost" -> 6
      [] c = "Witch" -> 9
      [] c = "Fog" -> 3
      [] c = "Shadows" -> 4
      [] c = "Crow" -> 5
      [] c = "BlackCat" -> 2
      [] c = "Skeleton" -> 5
      [] c = "Spider" -> 3
      [] c = "Bat" -> 1
      [] c = "Pumpkin" -> 2

----------------------------------------------------------------------------
(* Positions and cell access. *)

Pos(px, py) == [x |-> px, y |-> py]

\* usize::saturating_sub
saturating_sub(a, b) == IF a >= b THEN a - b ELSE 0

\* Maze::get: index y * width + x of the flat vector.
get(x, y) == cells[y * width + x]

\* Maze::get_size
get_size == <<width, height>>

\* Maze::set applied to a cell vector c.
set(c, x, y, value) == [c EXCEPT ![y * width + x] = value]

center_x == width \div 2
center_y == height \div 2
start == Pos(center_x, center_y)

AllPos == {Pos(px, py) : px \in 0..(width - 1), py \in 0..(height - 1)}

\* The four neighbours in the order Right, Left, Down, Up.
Neighbours4(x, y) ==
    <<Pos(x + 1, y), Pos(saturating_sub(x, 1), y),
      Pos(x, y + 1), Pos(x, saturating_sub(y, 1))>>

----------------------------------------------------------------------------
(* Maze::new and the dimension rule. *)

constrain_dimension_NoRound(dim) == IF dim < 7 THEN 7 ELSE dim

constrain_dimension_RoundDown(dim) ==
    IF dim < 7 THEN 7 ELSE dim - ((dim - 7) % 4)

constrain_dimension(dim) ==
    IF dim < 7
    THEN 7
    ELSE LET remainder == (dim - 7) % 4
         IN  IF remainder = 0 THEN dim ELSE dim + (4 - remainder)

\* The locals of the operations that are not running.
Idle ==
    /\ generated = FALSE
    /\ stack = <<>>
    /\ visited = {}
    /\ passes_left = 0
    /\ removed = <<>>
    /\ art = [phase |-> "none"]
    /\ before = <<>>
    /\ nodes = {}
    /\ edges = {}
    /\ queue = <<>>
    /\ seen = {}
    /\ route = [tag |-> "unset", path |-> <<>>]
    /\ todo = {}
    /\ returned = <<>>
    /\ mst_visited = {}
    /\ mst_edges = {}
    /\ got = [called |-> FALSE]

IdleNext ==
    /\ generated' = FALSE
    /\ stack' = <<>>
    /\ visited' = {}
    /\ passes_left' = 0
    /\ removed' = <<>>
    /\ art' = [phase |-> "none"]
    /\ before' = <<>>
    /\ nodes' = {}
    /\ edges' = {}
    /\ queue' = <<>>
    /\ seen' = {}
    /\ route' = [tag |-> "unset", path |-> <<>>]
    /\ todo' = {}
    /\ returned' = <<>>
    /\ mst_visited' = {}
    /\ mst_edges' = {}
    /\ got' = [called |-> FALSE]

\* Maze::new(w, h, rs, et): normalised dimensions, all cells Wall.
New(w, h, rs, et) ==
    /\ req_width' = w
    /\ req_height' = h
    /\ width' = constrain_dimension(w)
    /\ height' = constrain_dimension(h)
    /\ room_size' = rs
    /\ exit_type' = et
    /\ cells' = [i \in 0..(constrain_dimension(w) * constrain_dimension(h) - 1)
                    |-> "Wall"]
    /\ pc' = "new"
    /\ IdleNext

----------------------------------------------------------------------------
(* Maze::generate: the room, the exit, the carver and the wall-removal     *)
(* loop.                                                                   *)

Min(a, b) == IF a < b THEN a ELSE b

\* The cells written by the "Create center room" loops: both ranges run from
\* center - room_size / 2 to center + room_size / 2 inclusive.
RoomRangeX == (center_x - room_size \div 2)..(center_x + room_size \div 2)
RoomRangeY == (center_y - room_size \div 2)..(center_y + room_size \div 2)

CreateCenterRoom_RoundedUp(c) ==
    [i \in DOMAIN c |->
        IF \E px \in (center_x - (room_size + 1) \div 2)
                        ..(center_x + (room_size + 1) \div 2),
              py \in (center_y - (room_size + 1) \div 2)
                        ..(center_y + (room_size + 1) \div 2) :
              i = py * width + px
        THEN "Path" ELSE c[i]]

CreateCenterRoom(c) ==
    [i \in DOMAIN c |->
        IF \E px \in RoomRangeX, py \in RoomRangeY : i = py * width + px
        THEN "Path" ELSE c[i]]

ExitPosition_Corner(side) ==
    CASE side = "Left" -> Pos(0, 0)
      [] side = "Right" -> Pos(width - 1, height - 1)
      [] side = "Top" -> Pos(width - 1, 0)
      [] side = "Bottom" -> Pos(0, height - 1)

ExitPosition_Swapped(side) ==
    CASE side = "Left" -> Pos(0, width \div 2)
      [] side = "Right" -> Pos(height - 1, width \div 2)
      [] side = "Top" -> Pos(height \div 2, 0)
      [] side = "Bottom" -> Pos(height \div 2, width - 1)

\* The match on exit_type, one arm per configured side.
ExitPosition(side) ==
    CASE side = "Left" -> Pos(0, height \div 2)
      [] side = "Right" -> Pos(width - 1, height \div 2)
      [] side = "Top" -> Pos(width \div 2, 0)
      [] side = "Bottom" -> Pos(width \div 2, height - 1)

\* ExitLocation::Random indexes the four positions with random_range(0..4).
ExitChoices ==
    IF exit_type = "Random"
    THEN {ExitPosition(s) : s \in {"Left", "Right", "Top", "Bottom"}}
    ELSE {ExitPosition(exit_type)}

\* generate() up to the call of generate_from: room, exit, and the carver's
\* initial stack and visited set. The usize subtractions center - room_size / 2
\* must not underflow.
GenerateBegin ==
    /\ pc = "new"
    /\ room_size \div 2 <= Min(center_x, center_y)
    /\ \E exit_pos \in ExitChoices :
          cells' = set(CreateCenterRoom(cells), exit_pos.x, exit_pos.y, "Exit")
    /\ stack' = <<start>>
    /\ visited' = {start}
    /\ pc' = "carve"
    /\ generated' = TRUE
    /\ UNCHANGED <<config, query_locals,
                   passes_left, removed, art, before, nodes, edges, queue,
                   seen, route>>

\* generate_from: the four (next, wall) pairs, Right, Left, Down, Up.
directions(pos) ==
    << <<Pos(pos.x + 2, pos.y), Pos(pos.x + 1, pos.y)>>,
       <<Pos(saturating_sub(pos.x, 2), pos.y),
         Pos(saturating_sub(pos.x, 1), pos.y)>>,
       <<Pos(pos.x, pos.y + 2), Pos(pos.x, pos.y + 1)>>,
       <<Pos(pos.x, saturating_sub(pos.y, 2)),
         Pos(pos.x, saturating_sub(pos.y, 1))>> >>

InBoundsUnvisited_Border(d, vis) ==
    /\ d[1].x >= 0
    /\ d[1].x < width - 1
    /\ d[1].y >= 0
    /\ d[1].y < height - 1
    /\ d[1] \notin vis

InBoundsUnvisited_Narrow(d, vis) ==
    /\ d[1].x > 0
    /\ d[1].x < width - 2
    /\ d[1].y > 0
    /\ d[1].y < height - 2
    /\ d[1] \notin vis

\* The filter of valid_directions: inside [1, dim - 2] and not yet visited.
InBoundsUnvisited(d, vis) ==
    /\ d[1].x > 0
    /\ d[1].x < width - 1
    /\ d[1].y > 0
    /\ d[1].y < height - 1
    /\ d[1] \notin vis

valid_directions_NoUp(pos, vis) ==
    SelectSeq(SubSeq(directions(pos), 1, 3),
              LAMBDA d : InBoundsUnvisited(d, vis))

valid_directions(pos, vis) ==
    SelectSeq(directions(pos), LAMBDA d : InBoundsUnvisited(d, vis))

\* One iteration of `while let Some(pos) = stack.pop()`.
CarveStep ==
    /\ pc = "carve"
    /\ stack # <<>>
    /\ LET pos == stack[Len(stack)]
           popped == SubSeq(stack, 1, Len(stack) - 1)
           valid == valid_directions(pos, visited)
       IN  IF valid # <<>>
           THEN \E i \in DOMAIN valid :
                   LET next == valid[i][1]
                       wall == valid[i][2]
                   IN  /\ stack' = Append(Append(popped, pos), next)
                       /\ cells' = set(set(cells, wall.x, wall.y, "Path"),
                                       next.x, next.y, "Path")
                       /\ visited' = visited \cup {next}
           ELSE /\ stack' = popped
                /\ UNCHANGED <<cells, visited>>
    /\ UNCHANGED <<config, query_locals, generated,
                   pc, passes_left, removed, art, before, nodes, edges, queue,
                   seen, route>>

wall_removal_count_Quarter == (width + height) \div 4

wall_removal_count == (width + height) \div 8

\* generate_from returns when the stack is empty; generate goes on to the
\* wall-removal loop `for _ in 0..wall_removal_count`.
CarveDone ==
    /\ pc = "carve"
    /\ stack = <<>>
    /\ passes_left' = wall_removal_count
    /\ pc' = IF wall_removal_count = 0 THEN "ready" ELSE "inject"
    /\ visited' = {}
    /\ UNCHANGED <<config, query_locals, generated,
                   cells, stack, removed, art, before, nodes, edges, queue,
                   seen, route>>

\* Number of the four orthogonal neighbours of (x, y) labelled Path.
adjacent_paths(x, y) ==
    Cardinality({p \in {Pos(x + 1, y), Pos(x - 1, y), Pos(x, y + 1),
                        Pos(x, y - 1)} : get(p.x, p.y) = "Path"})

has_horizontal_pair_Corner(x, y) ==
    get(x + 1, y) = "Path" /\ get(x, y - 1) = "Path"

has_horizontal_pair(x, y) == get(x + 1, y) = "Path" /\ get(x - 1, y) = "Path"
has_vertical_pair(x, y) == get(x, y + 1) = "Path" /\ get(x, y - 1) = "Path"

\* The candidates of one pass: interior Wall cells with exactly two Path
\* neighbours that face each other.
candidate_walls ==
    {p \in AllPos :
        /\ p.x \in 1..(width - 2)
        /\ p.y \in 1..(height - 2)
        /\ get(p.x, p.y) = "Wall"
        /\ adjacent_paths(p.x, p.y) = 2
        /\ (has_horizontal_pair(p.x, p.y) \/ has_vertical_pair(p.x, p.y))}

\* One iteration of the wall-removal loop.
InjectPass ==
    /\ pc = "inject"
    /\ passes_left > 0
    /\ IF candidate_walls # {}
       THEN \E w \in candidate_walls :
               /\ cells' = set(cells, w.x, w.y, "Path")
               /\ removed' = Append(removed, w)
       ELSE UNCHANGED <<cells, removed>>
    /\ passes_left' = passes_left - 1
    /\ pc' = IF passes_left = 1 THEN "ready" ELSE "inject"
    /\ UNCHANGED <<config, query_locals, generated,
                   stack, visited, art, before, nodes, edges, queue, seen,
                   route>>

----------------------------------------------------------------------------
(* Maze::place_artifacts.                                                  *)

in_center_room_Never(p) == FALSE

\* The filter `in_center_room` of the candidate list.
in_center_room(p) ==
    /\ p.x >= center_x - room_size \div 2
    /\ p.x <= center_x + room_size \div 2
    /\ p.y >= center_y - room_size \div 2
    /\ p.y <= center_y + room_size \div 2

\* Every Path cell outside the central room.
valid_positions == {p \in AllPos : get(p.x, p.y) = "Path" /\ ~in_center_room(p)}

\* Number of cells labelled Path in the whole vector.
path_cells == Cardinality({i \in DOMAIN cells : cells[i] = "Path"})

\* (path_cells as f32 * fill_ratio) as usize, for a ratio num / den that f32
\* represents exactly: the product is exact and the cast truncates.
artifacts_count(num, den) == (path_cells * num) \div den

reward_count_of_All(n) == n

\* (artifacts_count as f32 * 0.4) as usize. The f32 nearest to 0.4 lies above
\* 2/5 by less than 1e-8, so the truncated product is floor(2n / 5) for every
\* count a grid can hold.
reward_count_of(n) == (n * 2) \div 5

\* The loops' `break` test: placed >= count.
quota_reached_Strict(placed, count) == placed > count

quota_reached(placed, count) == placed >= count

\* The position and its four neighbours that lie in the grid.
Blocked_SelfOnly(p) == {p}

Blocked(p) ==
    {p} \cup {a \in Range(Neighbours4(p.x, p.y)) : a.x < width /\ a.y < height}

\* place_artifacts(num / den) up to the first placement loop.
PlaceBegin(num, den) ==
    /\ pc \in {"new", "ready"}
    /\ room_size \div 2 <= Min(center_x, center_y)
    /\ art' = [phase |-> "rewards",
               fill_ratio |-> <<num, den>>,
               reward_count |-> reward_count_of(artifacts_count(num, den)),
               danger_count |-> artifacts_count(num, den)
                                - reward_count_of(artifacts_count(num, den)),
               reward_placed |-> 0,
               danger_placed |-> 0,
               valid_positions |-> valid_positions,
               occupied_and_adjacent |-> {}]
    /\ before' = cells
    /\ pc' = "placing"
    /\ UNCHANGED <<config, query_locals, generated,
                   cells, stack, visited, passes_left, removed, nodes, edges,
                   queue, seen, route>>

\* The shuffled candidate list is revealed as the loops walk it. Both loops
\* walk the same list from its head, and every position a loop has walked
\* over is in occupied_and_adjacent (it was placed on, or skipped for being
\* there), so a later iteration, of either loop, skips it again. The next
\* position a loop places on is therefore any candidate outside
\* occupied_and_adjacent, whichever the shuffle put first.
Available == art.valid_positions \ art.occupied_and_adjacent

\* Rewards loop: the iterations up to and including the next placement.
PlaceReward ==
    /\ pc = "placing"
    /\ art.phase = "rewards"
    /\ ~quota_reached(art.reward_placed, art.reward_count)
    /\ \E pos \in Available, reward \in Range(REWARDS) :
          /\ cells' = set(cells, pos.x, pos.y, reward)
          /\ art' = [art EXCEPT
                        !.reward_placed = @ + 1,
                        !.occupied_and_adjacent = @ \cup Blocked(pos)]
    /\ UNCHANGED <<config, query_locals, generated,
                   pc, stack, visited, passes_left, removed, before, nodes,
                   edges, queue, seen, route>>

\* Rewards loop: `break` on reward_placed >= reward_count, or the list ends.
RewardsEnd ==
    /\ pc = "placing"
    /\ art.phase = "rewards"
    /\ (quota_reached(art.reward_placed, art.reward_count) \/ Available = {})
    /\ art' = [art EXCEPT !.phase = "dangers"]
    /\ UNCHANGED <<config, query_locals, generated,
                   cells, pc, stack, visited, passes_left, removed, before,
                   nodes, edges, queue, seen, route>>

\* Dangers loop: the iterations up to and including the next placement.
PlaceDanger ==
    /\ pc = "placing"
    /\ art.phase = "dangers"
    /\ ~quota_reached(art.danger_placed, art.danger_count)
    /\ \E pos \in Available, danger \in Range(DANGERS) :
          /\ cells' = set(cells, pos.x, pos.y, danger)
          /\ art' = [art EXCEPT
                        !.danger_placed = @ + 1,
                        !.occupied_and_adjacent = @ \cup Blocked(pos)]
    /\ UNCHANGED <<config, query_locals, generated,
                   pc, stack, visited, passes_left, removed, before, nodes,
                   edges, queue, seen, route>>

\* Dangers loop: `break` on danger_placed >= danger_count, or the list ends;
\* place_artifacts returns.
DangersEnd ==
    /\ pc = "placing"
    /\ art.phase = "dangers"
    /\ (quota_reached(art.danger_placed, art.danger_count) \/ Available = {})
    /\ art' = [art EXCEPT !.phase = "done"]
    /\ pc' = "placed"
    /\ UNCHANGED <<config, query_locals, generated,
                   cells, stack, visited, passes_left, removed, before, nodes,
                   edges, queue, seen, route>>

\* Largest number of artifacts a Grid may hold when place_artifacts is called
\* on it again.
MaxHeld == 1

\* Number of cells holding a reward or danger label.
artifacts_held ==
    Cardinality({i \in DOMAIN cells :
                    cells[i] \in Range(REWARDS) \cup Range(DANGERS)})

\* place_artifacts(num / den) called again on the Grid a previous call
\* returned on: the same code up to the first placement loop, with a fresh
\* empty occupied_and_adjacent set.
PlaceAgain(num, den) ==
    /\ pc = "placed"
    /\ artifacts_held <= MaxHeld
    /\ room_size \div 2 <= Min(center_x, center_y)
    /\ art' = [phase |-> "rewards",
               fill_ratio |-> <<num, den>>,
               reward_count |-> reward_count_of(artifacts_count(num, den)),
               danger_count |-> artifacts_count(num, den)
                                - reward_count_of(artifacts_count(num, den)),
               reward_placed |-> 0,
               danger_placed |-> 0,
               valid_positions |-> valid_positions,
               occupied_and_adjacent |-> {}]
    /\ before' = cells
    /\ pc' = "placing"
    /\ UNCHANGED <<config, query_locals, generated,
                   cells, stack, visited, passes_left, removed, nodes, edges,
                   queue, seen, route>>

----------------------------------------------------------------------------
(* Maze::shortest_path: the route search over the Grid.                    *)

room_min_x == center_x - room_size \div 2
room_max_x == center_x + room_size \div 2
room_min_y == center_y - room_size \div 2
room_max_y == center_y + room_size \div 2

InRoom(x, y) ==
    x >= room_min_x /\ x <= room_max_x /\ y >= room_min_y /\ y <= room_max_y

\* The positions of the room in the order of the loops `for y { for x {`.
RoomScan ==
    LET nx == room_max_x - room_min_x + 1
        ny == room_max_y - room_min_y + 1
    IN  [k \in 1..(nx * ny) |->
            Pos(room_min_x + ((k - 1) % nx), room_min_y + ((k - 1) \div nx))]

\* An edge cell of the room with a traversable neighbour outside the room.
LeadsOutside(p) ==
    /\ (p.x = room_min_x \/ p.x = room_max_x \/ p.y = room_min_y
            \/ p.y = room_max_y)
    /\ \E i \in 1..4 :
          LET n == Neighbours4(p.x, p.y)[i]
          IN  /\ n.x < width
              /\ n.y < height
              /\ get(n.x, n.y) \in TRAVERSABLE
              /\ ~InRoom(n.x, n.y)

Entry(p, path) == [pos |-> p, path |-> path]

InsertFront_Back(q, e) == Append(q, e)

\* Vec::insert(0, e)
InsertFront(q, e) == <<e>> \o q

RECURSIVE SeedQueue(_, _, _)
\* The seeding loops from position k of the room scan on: every qualifying
\* edge cell is inserted at index 0 with the one-element path [pos].
SeedQueue(q, scan, k) ==
    IF k > Len(scan)
    THEN q
    ELSE SeedQueue(IF LeadsOutside(scan[k])
                   THEN InsertFront(q, Entry(scan[k], <<scan[k]>>))
                   ELSE q,
                   scan, k + 1)

\* shortest_path() up to the `while let` loop.
SearchBegin ==
    /\ pc \in {"new", "ready"}
    /\ room_size \div 2 <= Min(center_x, center_y)
    /\ queue' = SeedQueue(<<Entry(start, <<start>>)>>, RoomScan, 1)
    /\ seen' = {start} \cup {RoomScan[k] : k \in {j \in DOMAIN RoomScan :
                                                   LeadsOutside(RoomScan[j])}}
    /\ pc' = "search"
    /\ UNCHANGED <<config, query_locals, generated,
                   cells, stack, visited, passes_left, removed, art, before,
                   nodes, edges, route>>

RECURSIVE Explore(_, _, _, _, _)
\* The loop over the four neighbours of the popped entry: an unvisited
\* traversable neighbour is inserted at index 0 and marked visited at once.
\* Returns the work list and the visited set.
Explore(q, vis, entry, dirs, i) ==
    IF i > Len(dirs)
    THEN <<q, vis>>
    ELSE LET next == dirs[i]
         IN  IF /\ next.x < width
                /\ next.y < height
                /\ next \notin vis
                /\ get(next.x, next.y) \in TRAVERSABLE
             THEN Explore(InsertFront(q, Entry(next, Append(entry.path, next))),
                          vis \cup {next}, entry, dirs, i + 1)
             ELSE Explore(q, vis, entry, dirs, i + 1)

\* Vec::pop takes the last element.
PopEntry(q) == <<q[Len(q)], SubSeq(q, 1, Len(q) - 1)>>

\* One iteration of `while let Some((pos, path)) = queue.pop()`.
SearchStep ==
    /\ pc = "search"
    /\ queue # <<>>
    /\ LET entry == PopEntry(queue)[1]
           rest == PopEntry(queue)[2]
       IN  IF get(entry.pos.x, entry.pos.y) = "Exit"
           THEN /\ route' = [tag |-> "Some", path |-> entry.path]
                /\ pc' = "found"
                /\ queue' = rest
                /\ UNCHANGED seen
           ELSE LET r == Explore(rest, seen, entry,
                                 Neighbours4(entry.pos.x, entry.pos.y), 1)
                IN  /\ queue' = r[1]
                    /\ seen' = r[2]
                    /\ UNCHANGED <<route, pc>>
    /\ UNCHANGED <<config, query_locals, generated,
                   cells, stack, visited, passes_left, removed, art, before,
                   nodes, edges>>

\* The work list is empty: shortest_path returns None.
SearchFail ==
    /\ pc = "search"
    /\ queue = <<>>
    /\ route' = [tag |-> "None", path |-> <<>>]
    /\ pc' = "notfound"
    /\ UNCHANGED <<config, query_locals, generated,
                   cells, stack, visited, passes_left, removed, art, before,
                   nodes, edges, queue, seen>>

----------------------------------------------------------------------------
(* Maze::build_graph: nodes and weighted edges derived from the Grid.      *)

\* The inner loop `for y in 0..height` of the exit search in column x: the
\* first y holding Exit, or -1.
ExitInColumn(x) ==
    IF \E y \in 0..(height - 1) : get(x, y) = "Exit"
    THEN CHOOSE y \in 0..(height - 1) :
            /\ get(x, y) = "Exit"
            /\ \A y2 \in 0..(y - 1) : get(x, y2) # "Exit"
    ELSE -1

\* The exit search over the columns [0, width - 1]; the later column
\* overwrites the earlier. The empty set stands for None.
FindExit ==
    IF ExitInColumn(width - 1) # -1
    THEN {Pos(width - 1, ExitInColumn(width - 1))}
    ELSE IF ExitInColumn(0) # -1
         THEN {Pos(0, ExitInColumn(0))}
         ELSE {}

\* Number of traversable cells among (x+1,y), (x-1,y), (x,y+1), (x,y-1).
traversable_neighbors(x, y) ==
    Cardinality({p \in {Pos(x + 1, y), Pos(x - 1, y), Pos(x, y + 1),
                        Pos(x, y - 1)} : get(p.x, p.y) \in TRAVERSABLE})

\* The interior cells the scan promotes to nodes.
ScanNodes(exit_pos) ==
    {p \in AllPos :
        /\ p.x \in 1..(width - 2)
        /\ p.y \in 1..(height - 2)
        /\ get(p.x, p.y) \in TRAVERSABLE
        /\ traversable_neighbors(p.x, p.y) # 2
        /\ p # start
        /\ p \notin exit_pos}

\* The node map as a set of (pos, id) entries: center 0, exit 1, then the
\* scanned cells numbered in the order of the loops `for y { for x {`.
NodeMap ==
    LET exit_pos == FindExit
        scanned == ScanNodes(exit_pos)
        order(p) == p.y * width + p.x
    IN  IF exit_pos = {}
        THEN {[pos |-> start, id |-> 0]}
        ELSE {[pos |-> start, id |-> 0]}
             \cup {[pos |-> e, id |-> 1] : e \in exit_pos}
             \cup {[pos |-> p,
                    id |-> 2 + Cardinality({q \in scanned :
                                               order(q) < order(p)})] :
                   p \in scanned}

IsNode(ns, p) == \E n \in ns : n.pos = p
NodeId(ns, p) == (CHOOSE n \in ns : n.pos = p).id

\* The offsets (1,0), (-1,0), (0,1), (0,-1).
Offsets == << <<1, 0>>, <<-1, 0>>, <<0, 1>>, <<0, -1>> >>

InGrid(x, y) == x >= 0 /\ x < width /\ y >= 0 /\ y < height

Edge(a, b, w) == [start_id |-> a, end_id |-> b, weight |-> w]

\* The first offset leading to a non-Wall cell not visited on this walk, or 0.
NextOffset(x, y, vis) ==
    LET ok == {i \in 1..4 :
                  /\ InGrid(x + Offsets[i][1], y + Offsets[i][2])
                  /\ get(x + Offsets[i][1], y + Offsets[i][2]) # "Wall"
                  /\ Pos(x + Offsets[i][1], y + Offsets[i][2]) \notin vis}
    IN  IF ok = {} THEN 0 ELSE CHOOSE i \in ok : \A j \in ok : i <= j

RECURSIVE FollowPath(_, _, _, _, _, _)
\* The `while` loop that follows a corridor from (x, y): the edges it inserts
\* (none or one).
FollowPath(ns, start_id, x, y, w, vis) ==
    IF IsNode(ns, Pos(x, y))
    THEN IF start_id < NodeId(ns, Pos(x, y))
         THEN {Edge(start_id, NodeId(ns, Pos(x, y)), w)}
         ELSE {}
    ELSE LET vis2 == vis \cup {Pos(x, y)}
             i == NextOffset(x, y, vis2)
         IN  IF i = 0
             THEN {}
             ELSE LET nx == x + Offsets[i][1]
                      ny == y + Offsets[i][2]
                  IN  FollowPath(ns, start_id, nx, ny,
                                 w + weight(get(nx, ny)), vis2)

EdgesFrom_SkipFirst(ns, n, i) ==
    LET x == n.pos.x + Offsets[i][1]
        y == n.pos.y + Offsets[i][2]
    IN  IF ~InGrid(x, y)
        THEN {}
        ELSE IF get(x, y) = "Wall"
             THEN {}
             ELSE FollowPath(ns, n.id, x, y, 0, {n.pos})

\* The walks from one node in one direction.
EdgesFrom(ns, n, i) ==
    LET x == n.pos.x + Offsets[i][1]
        y == n.pos.y + Offsets[i][2]
    IN  IF ~InGrid(x, y)
        THEN {}
        ELSE IF get(x, y) = "Wall"
             THEN {}
             ELSE FollowPath(ns, n.id, x, y, weight(get(x, y)), {n.pos})

EdgeSet(ns) ==
    IF FindExit = {}
    THEN {}
    ELSE UNION {EdgesFrom(ns, n, i) : n \in ns, i \in 1..4}

\* build_graph() on the current Grid.
BuildGraph ==
    /\ pc \in {"new", "ready", "placed"}
    /\ nodes' = NodeMap
    /\ edges' = EdgeSet(NodeMap)
    /\ pc' = "graph"
    /\ UNCHANGED <<config, query_locals, generated,
                   cells, stack, visited, passes_left, removed, art, before,
                   queue, seen, route>>

\* Largest number of build_graph calls made one after the other on a Grid.
MaxCalls == 2

\* HashSet::insert of each edge of `found` into the edge set `es`.
InsertEdges_Overwrite(es, found) == IF found = {} THEN es ELSE found

InsertEdges(es, found) == es \cup found

\* build_graph() with its edge loop unrolled: the exit search and the scan
\* that fill the node map. Without an exit it returns at once.
BuildGraphBegin ==
    /\ pc \in {"ready", "graph"}
    /\ Len(returned) < MaxCalls
    /\ nodes' = NodeMap
    /\ edges' = {}
    /\ IF FindExit = {}
       THEN /\ todo' = {}
            /\ returned' = Append(returned, [nodes |-> NodeMap, edges |-> {}])
            /\ pc' = "graph"
       ELSE /\ todo' = NodeMap
            /\ returned' = returned
            /\ pc' = "edges"
    /\ UNCHANGED <<config, generated, cells, stack, visited, passes_left,
                   removed, art, before, queue, seen, route, mst_visited,
                   mst_edges, got>>

\* One iteration of `for (&start_pos, &start_id) in &nodes`: the HashMap
\* yields its entries in an order of its own, so the iteration takes any entry
\* not yet taken and walks the four directions from it.
EdgeLoopStep ==
    /\ pc = "edges"
    /\ \E n \in todo :
          /\ edges' = InsertEdges(edges,
                                  UNION {EdgesFrom(nodes, n, i) : i \in 1..4})
          /\ todo' = todo \ {n}
    /\ UNCHANGED <<config, generated, cells, pc, stack, visited, passes_left,
                   removed, art, before, nodes, queue, seen, route, returned,
                   mst_visited, mst_edges, got>>

\* The edge loop has taken every entry: build_graph returns (nodes, edges).
BuildGraphReturn ==
    /\ pc = "edges"
    /\ todo = {}
    /\ returned' = Append(returned, [nodes |-> nodes, edges |-> edges])
    /\ pc' = "graph"
    /\ UNCHANGED <<config, generated, cells, stack, visited, passes_left,
                   removed, art, before, nodes, edges, queue, seen, route,
                   todo, mst_visited, mst_edges, got>>

----------------------------------------------------------------------------
(* Maze::set called by a user of the library.                              *)

\* Largest number of non-Wall cells of a Grid built with set() alone.
MaxOpen == 3

\* The cells set() is called on, the middle row and the middle column, and the
\* labels it writes.
EditCells == {p \in AllPos : p.x = center_x \/ p.y = center_y}
EditLabels == {"Wall", "Path", "Exit", "Zombie"}

\* set(x, y, value) on a Grid on which generate() has not been called: the
\* unconditional write of one cell.
SetCell(x, y, value) ==
    /\ pc = "new"
    /\ cells' = set(cells, x, y, value)
    /\ Cardinality({i \in DOMAIN cells : set(cells, x, y, value)[i] # "Wall"})
          <= MaxOpen
    /\ UNCHANGED <<config, query_locals, generated, pc, stack, visited,
                   passes_left, removed, art, before, nodes, edges, queue,
                   seen, route>>

\* Largest number of cells a user relabels with set() on a generated Grid.
MaxLabelled == 1

\* The label such a call writes: the reward of the least weight.
LabelKinds == {"Chocolate"}

\* set(x, y, value) on a generated Grid, by a user who puts a reward on a
\* Path cell before asking for the graph.
SetLabel(x, y, value) ==
    /\ pc = "ready"
    /\ get(x, y) = "Path"
    /\ artifacts_held < MaxLabelled
    /\ cells' = set(cells, x, y, value)
    /\ UNCHANGED <<config, query_locals, generated, pc, stack, visited,
                   passes_left, removed, art, before, nodes, edges, queue,
                   seen, route>>

----------------------------------------------------------------------------
(* Maze::get called by a user of the library.                              *)

\* Largest x and y argument of a get call tried.
MaxCoord == 9

\* The (x, y) arguments of the get calls tried: three cells of the Grid, a
\* column past the last one and a row past the last one.
GetArgs == {<<0, 0>>, <<1, 0>>, <<2, 1>>, <<MaxCoord, 2>>, <<0, MaxCoord>>}

\* get(x, y) with any arguments, on a Grid between two calls that change it:
\* the Vec index y * width + x panics when it is not below cells.len(), which
\* ends the program, and yields the cell at that index otherwise.
GetCall(x, y) ==
    /\ pc \in {"new", "ready", "placed"}
    /\ got' = [called |-> TRUE, x |-> x, y |-> y,
               result |-> IF y * width + x < width * height
                          THEN get(x, y)
                          ELSE "panic"]
    /\ pc' = IF y * width + x < width * height THEN pc ELSE "panicked"
    /\ UNCHANGED <<config, generated, cells, stack, visited, passes_left,
                   removed, art, before, nodes, edges, queue, seen, route,
                   todo, returned, mst_visited, mst_edges>>

----------------------------------------------------------------------------
(* Maze::mst_prim: Prim's algorithm over the graph of build_graph.         *)

\* connects_visited_and_unvisited, for every edge of the set.
Crossing_StartOnly(es, vis) ==
    {e \in es : e.start_id \in vis /\ e.end_id \notin vis}

Crossing(es, vis) ==
    {e \in es : \/ (e.start_id \in vis /\ e.end_id \notin vis)
                \/ (e.end_id \in vis /\ e.start_id \notin vis)}

\* The scan `for edge in &edges` keeps the first crossing edge and replaces it
\* by a later one only when that one is strictly lighter: it ends on a
\* crossing edge of least weight, the first of them in the order the HashSet
\* yields its entries.
MinEdges_Heaviest(crossing) ==
    {e \in crossing : \A f \in crossing : e.weight >= f.weight}

MinEdges(crossing) ==
    {e \in crossing : \A f \in crossing : e.weight <= f.weight}

\* mst_prim() up to its `while` loop.
MstBegin ==
    /\ pc \in {"new", "ready", "placed"}
    /\ nodes' = NodeMap
    /\ edges' = EdgeSet(NodeMap)
    /\ mst_edges' = {}
    /\ IF IsNode(NodeMap, start)
       THEN /\ mst_visited' = {NodeId(NodeMap, start)}
            /\ pc' = "mst"
       ELSE /\ mst_visited' = {}
            /\ pc' = "mst_done"
    /\ UNCHANGED <<config, generated, cells, stack, visited, passes_left,
                   removed, art, before, queue, seen, route, todo, returned,
                   got>>

\* One iteration of `while visited.len() < nodes.len()` that finds an edge.
MstStep ==
    /\ pc = "mst"
    /\ Cardinality(mst_visited) < Cardinality(nodes)
    /\ \E edge \in MinEdges(Crossing(edges, mst_visited)) :
          /\ mst_visited' = mst_visited \cup {edge.start_id, edge.end_id}
          /\ mst_edges' = mst_edges \cup {edge}
    /\ UNCHANGED <<config, generated, cells, pc, stack, visited, passes_left,
                   removed, art, before, nodes, edges, queue, seen, route,
                   todo, returned, got>>

\* The loop ends, on its condition or on `break`: mst_prim returns
\* (nodes, mst_edges).
MstEnd ==
    /\ pc = "mst"
    /\ \/ Cardinality(mst_visited) >= Cardinality(nodes)
       \/ Crossing(edges, mst_visited) = {}
    /\ pc' = "mst_done"
    /\ UNCHANGED <<config, generated, cells, stack, visited, passes_left,
                   removed, art, before, nodes, edges, queue, seen, route,
                   todo, returned, mst_visited, mst_edges, got>>

----------------------------------------------------------------------------
(* Specifications. *)

RoomSizes == 1..MaxRoomSize

\* The state after Maze::new(w, h, rs, et).
InitOf(w, h, rs, et) ==
    /\ req_width = w
    /\ req_height = h
    /\ width = constrain_dimension(w)
    /\ height = constrain_dimension(h)
    /\ room_size = rs
    /\ exit_type = et
    /\ cells = [i \in 0..(constrain_dimension(w) * constrain_dimension(h) - 1)
                   |-> "Wall"]
    /\ pc = "new"
    /\ Idle

Init ==
    \/ \E g \in GridSizes, rs \in RoomSizes, et \in ExitLocation :
          InitOf(g[1], g[2], rs, et)
    \/ \E g \in WideGrids, et \in WideExits : InitOf(g[1], g[2], g[3], et)

Next ==
    \/ GenerateBegin
    \/ CarveStep
    \/ CarveDone
    \/ InjectPass
    \/ SearchBegin
    \/ SearchStep
    \/ SearchFail
    \/ BuildGraph

Spec == Init /\ [][Next]_vars

\* Construction alone: Maze::new on every pair of dimensions up to MaxDim,
\* and the rebuild of the maze with new dimensions (src/src/ui/ui.rs:192-201).
InitNew == \E w \in 0..MaxDim, h \in 0..MaxDim : InitOf(w, h, 3, "Right")

Rebuild ==
    /\ pc = "new"
    /\ \E w \in 0..MaxDim, h \in 0..MaxDim : New(w, h, room_size, exit_type)

NextNew == Rebuild

SpecNew == InitNew /\ [][NextNew]_vars

\* The configuration of src/src/maze/main.rs (room_size 3,
\* ExitLocation::Right).
InitArtifacts == InitOf(7, 7, 3, "Right")

\* Generation and one place_artifacts call. With these ratios on these
\* mazes reward_count is 0 and the rewards loop breaks on its first test, so
\* no step is a reward placement.
NextArtifacts ==
    \/ GenerateBegin
    \/ CarveStep
    \/ CarveDone
    \/ InjectPass
    \/ \E r \in FillRatios : PlaceBegin(r[1], r[2])
    \/ RewardsEnd
    \/ PlaceDanger
    \/ DangersEnd

SpecArtifacts == InitArtifacts /\ [][NextArtifacts]_vars

\* The fill ratios tried on the Grids built with set(): no artifact, and an
\* artifact for every Path cell, which is one reward and two dangers on
\* three Path cells.
HandRatios == {<<0, 1>>, <<1, 1>>}

\* Grids of at most MaxOpen Path cells on the middle row and column, built
\* with set() on a new Maze, and one place_artifacts call on them: the
\* candidates are the Path cells outside the room, and they run out before
\* the quotas are met when they are too few or too close to each other.
NextHandBuilt ==
    \/ \E p \in EditCells : SetCell(p.x, p.y, "Path")
    \/ \E r \in HandRatios : PlaceBegin(r[1], r[2])
    \/ PlaceReward
    \/ RewardsEnd
    \/ PlaceDanger
    \/ DangersEnd

SpecHandBuilt == InitArtifacts /\ [][NextHandBuilt]_vars

\* The ratio of the place_artifacts calls made one after the other on the
\* same Grid: each call has one danger to place.
RepeatRatios == {<<1, 16>>}

\* Generation followed by place_artifacts calls one after the other, a further
\* call being made while the Grid holds at most MaxHeld artifacts. No call
\* has a reward to place.
NextRepeat ==
    \/ GenerateBegin
    \/ CarveStep
    \/ CarveDone
    \/ InjectPass
    \/ \E r \in RepeatRatios : PlaceBegin(r[1], r[2])
    \/ \E r \in RepeatRatios : PlaceAgain(r[1], r[2])
    \/ RewardsEnd
    \/ PlaceDanger
    \/ DangersEnd

SpecRepeat == InitArtifacts /\ [][NextRepeat]_vars

\* A maze whose room is the center cell alone, where loop injection finds
\* walls to remove and the corridors form cycles: generation, an optional
\* set() of a reward on a Path cell of the middle row or column, an optional
\* place_artifacts call with one danger to place, and build_graph.
InitCycles == InitOf(7, 7, 1, "Right")

NextCycles ==
    \/ GenerateBegin
    \/ CarveStep
    \/ CarveDone
    \/ InjectPass
    \/ \E p \in EditCells, v \in LabelKinds : SetLabel(p.x, p.y, v)
    \/ \E r \in SparseRatios : PlaceBegin(r[1], r[2])
    \/ RewardsEnd
    \/ PlaceDanger
    \/ DangersEnd
    \/ BuildGraph

SpecCycles == InitCycles /\ [][NextCycles]_vars

\* The exit sides of the mazes whose graph is built more than once: one the
\* exit search finds and one it does not.
GraphExits == {"Right", "Top"}

\* Generation followed by up to MaxCalls build_graph calls, each with its edge
\* loop iterating the node map in any order.
InitGraph == \E et \in GraphExits : InitOf(7, 7, 1, et)

NextGraph ==
    \/ GenerateBegin
    \/ CarveStep
    \/ CarveDone
    \/ InjectPass
    \/ BuildGraphBegin
    \/ EdgeLoopStep
    \/ BuildGraphReturn

SpecGraph == InitGraph /\ [][NextGraph]_vars

\* generate() alone. The loops of generate_from and generate run in one
\* thread with nothing to wait for: an iteration that can run does run.
NextGenerate ==
    \/ GenerateBegin
    \/ CarveStep
    \/ CarveDone
    \/ InjectPass

SpecGenerate ==
    /\ Init
    /\ [][NextGenerate]_vars
    /\ WF_vars(CarveStep)
    /\ WF_vars(CarveDone)
    /\ WF_vars(InjectPass)

\* The fill ratio of the "Generate New Maze" button, src/src/ui/ui.rs:211.
\* The f32 nearest to 0.1 lies above 1/10 by less than 2e-9, so the truncated
\* product is floor(path_cells / 10) for every count a grid can hold.
UiRatios == {<<1, 10>>}

\* The maze of src/src/ui/ui.rs: Maze::new, then generate() and
\* place_artifacts(0.1) (lines 204-211), with the get calls of the draw loop
\* (lines 84-90) on the Grid as constructed, as generated and after
\* placement. The call has two artifacts to place, both dangers.
NextGet ==
    \/ GenerateBegin
    \/ CarveStep
    \/ CarveDone
    \/ InjectPass
    \/ \E r \in UiRatios : PlaceBegin(r[1], r[2])
    \/ RewardsEnd
    \/ PlaceDanger
    \/ DangersEnd
    \/ \E a \in GetArgs : GetCall(a[1], a[2])

SpecGet == InitArtifacts /\ [][NextGet]_vars

\* Grids built with set() alone, with room_size 1 and 3, queried with the
\* route search and with mst_prim. The loop of mst_prim is sequential code
\* with nothing to wait for: an iteration that can run does run.
InitEdit == \E rs \in {1, 3} : InitOf(7, 7, rs, "Right")

NextEdit ==
    \/ \E p \in EditCells, v \in EditLabels : SetCell(p.x, p.y, v)
    \/ SearchBegin
    \/ SearchStep
    \/ SearchFail
    \/ MstBegin
    \/ MstStep
    \/ MstEnd

SpecEdit ==
    /\ InitEdit
    /\ [][NextEdit]_vars
    /\ WF_vars(MstStep)
    /\ WF_vars(MstEnd)

\* Generation, an optional place_artifacts call and mst_prim, as in
\* src/src/maze/main.rs, on the mazes with loops, with an optional set() of a
\* reward before them.
NextMst ==
    \/ GenerateBegin
    \/ CarveStep
    \/ CarveDone
    \/ InjectPass
    \/ \E p \in EditCells, v \in LabelKinds : SetLabel(p.x, p.y, v)
    \/ \E r \in SparseRatios : PlaceBegin(r[1], r[2])
    \/ RewardsEnd
    \/ PlaceDanger
    \/ DangersEnd
    \/ MstBegin
    \/ MstStep
    \/ MstEnd

SpecMst == InitCycles /\ [][NextMst]_vars

----------------------------------------------------------------------------
(* Properties. *)

IsValidDim(n) == n >= 7 /\ (n - 7) % 4 = 0

\* C1: for every requested width and height, the dimensions stored by
\* Maze::new and reported by get_size() are each >= 7 and satisfy
\* (dim - 7) mod 4 = 0.
C1_DimensionsValid ==
    /\ get_size[1] >= 7
    /\ (get_size[1] - 7) % 4 = 0
    /\ get_size[2] >= 7
    /\ (get_size[2] - 7) % 4 = 0
    /\ DOMAIN cells = 0..(get_size[1] * get_size[2] - 1)

\* A maze built from a width below 7 and a height above 7 that is not of the
\* form 7 + 4k.
C1_Witness ==
    /\ pc = "new"
    /\ req_width < 7
    /\ req_height > 7
    /\ (req_height - 7) % 4 = 2
    /\ get_size = <<7, req_height + 2>>

\* C2: normalization rounds up to the nearest valid value: the stored
\* dimension is the smallest n >= d with n >= 7 and (n - 7) mod 4 = 0, so a
\* valid input is kept and normalizing the stored value again changes nothing.
C2_RoundsUpToNearest ==
    /\ IsValidDim(width) /\ width >= req_width
    /\ \A n \in req_width..(width - 1) : ~IsValidDim(n)
    /\ IsValidDim(height) /\ height >= req_height
    /\ \A n \in req_height..(height - 1) : ~IsValidDim(n)
    /\ (IsValidDim(req_width) => width = req_width)
    /\ (IsValidDim(req_height) => height = req_height)
    /\ constrain_dimension(width) = width
    /\ constrain_dimension(height) = height

\* A valid width above 7 is kept while a height one past a valid value is
\* rounded up by three.
C2_Witness ==
    /\ pc = "new"
    /\ req_width > 7 /\ IsValidDim(req_width) /\ width = req_width
    /\ (req_height - 7) % 4 = 1 /\ height = req_height + 3

RoomIsInterior ==
    /\ center_x - room_size \div 2 >= 1
    /\ center_y - room_size \div 2 >= 1

SearchEnded == pc \in {"found", "notfound"}

\* C3: on a generated grid with an odd room_size whose room lies inside the
\* interior, for every exit side, the route search returns Some(path) and the
\* last position of the path holds Exit.
C3_RouteFound ==
    (generated /\ SearchEnded /\ room_size % 2 = 1 /\ RoomIsInterior)
        => /\ route.tag = "Some"
           /\ Len(route.path) >= 1
           /\ LET last == route.path[Len(route.path)]
              IN  get(last.x, last.y) = "Exit"

\* A search that ended on a generated 11 x 7 maze with the exit on top.
C3_Witness ==
    /\ generated
    /\ pc = "found"
    /\ width = 11
    /\ room_size = 3
    /\ exit_type = "Top"
    /\ Len(route.path) >= 3

ExitCells == {p \in AllPos : get(p.x, p.y) = "Exit"}

\* C4: once generate() has set the exit, during carving, during loop
\* injection and afterwards, exactly one cell holds Exit and it is the
\* midpoint border cell of the configured side (one of the four with Random);
\* on 7 x 7 with room_size 3 and Right it is (6, 3).
C4_OneExitAtMidpoint ==
    generated =>
        /\ Cardinality(ExitCells) = 1
        /\ (exit_type = "Left" => ExitCells = {Pos(0, height \div 2)})
        /\ (exit_type = "Right" => ExitCells = {Pos(width - 1, height \div 2)})
        /\ (exit_type = "Top" => ExitCells = {Pos(width \div 2, 0)})
        /\ (exit_type = "Bottom" => ExitCells = {Pos(width \div 2, height - 1)})
        /\ (exit_type = "Random" =>
               ExitCells \subseteq {Pos(0, height \div 2),
                                    Pos(width - 1, height \div 2),
                                    Pos(width \div 2, 0),
                                    Pos(width \div 2, height - 1)})
        /\ ((width = 7 /\ height = 7 /\ room_size = 3 /\ exit_type = "Right")
               => get(6, 3) = "Exit")

\* A generated 11 x 7 maze, exit on the right, after loop injection removed
\* walls.
C4_Witness ==
    /\ pc = "ready"
    /\ width = 11
    /\ height = 7
    /\ exit_type = "Right"
    /\ Len(removed) >= 1
    /\ get(10, 3) = "Exit"

PathCells == {p \in AllPos : get(p.x, p.y) = "Path"}

\* The square of side s whose top-left cell is (x0, y0).
Block(x0, y0, s) ==
    {Pos(px, py) : px \in x0..(x0 + s - 1), py \in y0..(y0 + s - 1)}

\* generate() has carved the room and the carver has not moved yet.
RoomJustCarved == pc = "carve" /\ visited = {start} /\ stack = <<start>>

\* C5: the room-carving step sets to Path a square block around the center
\* whose side is exactly room_size, for every room_size >= 1 that fits in the
\* interior (odd or even), and that block is all Path before carving starts.
C5_RoomSideIsRoomSize ==
    (RoomJustCarved /\ room_size <= Min(width, height) - 2)
        => \E x0 \in 1..center_x, y0 \in 1..center_y :
              /\ start \in Block(x0, y0, room_size)
              /\ PathCells = Block(x0, y0, room_size)

IsArtifact(c) == c \in Range(REWARDS) \cup Range(DANGERS)

ArtifactCells == {p \in AllPos : IsArtifact(get(p.x, p.y))}

Adjacent(p, q) ==
    \/ (p.x = q.x /\ (p.y = q.y + 1 \/ q.y = p.y + 1))
    \/ (p.y = q.y /\ (p.x = q.x + 1 \/ q.x = p.x + 1))

\* C6: during and after one place_artifacts(r) call on a generated grid that
\* held no artifacts, for every fill ratio tried, no two cells holding a
\* reward or danger label are orthogonally adjacent.
C6_NoAdjacentArtifacts ==
    \A p \in ArtifactCells, q \in ArtifactCells : ~Adjacent(p, q)

\* A call has returned after placing two dangers as close to each other as
\* the exclusion allows: two cells apart on one row or column.
C6_Witness ==
    /\ generated
    /\ pc = "placed"
    /\ art.danger_placed = 2
    /\ \E p \in ArtifactCells, q \in ArtifactCells :
          \/ (p.x = q.x /\ p.y + 2 = q.y)
          \/ (p.y = q.y /\ p.x + 2 = q.x)

\* C7: place_artifacts(0.0) leaves every cell of the Grid as it was when the
\* call began.
C7_ZeroRatioChangesNothing ==
    (art.phase # "none" /\ art.fill_ratio[1] = 0)
        => /\ cells = before
           /\ ArtifactCells = {}

\* place_artifacts(0.0) has returned on a grid that had candidate cells.
C7_Witness ==
    /\ pc = "placed"
    /\ art.fill_ratio[1] = 0
    /\ art.valid_positions # {}
    /\ art.reward_count = 0
    /\ art.danger_count = 0

\* C8: on a Grid that contains no Exit cell, build_graph() returns an empty
\* node map and an empty edge set.
C8_NoExitEmptyGraph ==
    (pc = "graph" /\ ExitCells = {}) => (nodes = {} /\ edges = {})

\* C9: after generate() with a configured exit side (Left, Right, Top or
\* Bottom), the node map of build_graph() contains the center with id 0 and
\* the position of the Exit cell with id 1.
C9_CenterAndExitAreNodes ==
    (pc = "graph" /\ generated /\ exit_type # "Random")
        => /\ [pos |-> start, id |-> 0] \in nodes
           /\ \A e \in ExitCells : [pos |-> e, id |-> 1] \in nodes

\* C10: the edge set of build_graph() holds at most one edge per unordered
\* pair of node ids, whatever the weights of the corridors joining them.
C10_OneEdgePerPair ==
    pc = "graph" =>
        \A e1 \in edges, e2 \in edges :
            ({e1.start_id, e1.end_id} = {e2.start_id, e2.end_id}) => e1 = e2

\* C11: build_graph() called again on the Grid it was called on, with no cell
\* changed in between, returns the node map and the edge set it returned the
\* first time, whatever the order in which either call iterated the node map.
C11_RebuildSameGraph ==
    \A i \in DOMAIN returned, j \in DOMAIN returned :
        /\ returned[i].nodes = returned[j].nodes
        /\ returned[i].edges = returned[j].edges

\* Two calls have returned on a maze with a loop, a graph of at least five
\* nodes and five edges.
C11_Witness ==
    /\ pc = "graph"
    /\ Len(returned) = 2
    /\ Len(removed) = 1
    /\ Cardinality(returned[2].nodes) >= 5
    /\ Cardinality(returned[2].edges) >= 5

NodeIds(ns) == {n.id : n \in ns}

RECURSIVE Reach(_, _)
\* The node ids joined to the ids of `from` by edges of es.
Reach(from, es) ==
    LET more == from \cup {e.end_id : e \in {f \in es : f.start_id \in from}}
                     \cup {e.start_id : e \in {f \in es : f.end_id \in from}}
    IN  IF more = from THEN from ELSE Reach(more, es)

Connected(ns, es) == Reach({0}, es) = NodeIds(ns)

RECURSIVE TotalWeight(_)
TotalWeight(es) ==
    IF es = {}
    THEN 0
    ELSE LET e == CHOOSE f \in es : TRUE
         IN  e.weight + TotalWeight(es \ {e})

\* The spanning trees of the graph: the edge subsets with one edge fewer than
\* there are nodes that join every node to node 0.
SpanningTrees(ns, es) ==
    {t \in SUBSET es : /\ Cardinality(t) = Cardinality(ns) - 1
                       /\ Connected(ns, t)}

\* C12: when mst_prim has returned and the graph of build_graph is connected,
\* the total weight of the returned edge set is at most the total weight of
\* every spanning tree of that graph, with negative weights and ties.
C12_MstIsMinimal ==
    (pc = "mst_done" /\ Connected(nodes, edges))
        => \A t \in SpanningTrees(nodes, edges) :
              TotalWeight(mst_edges) <= TotalWeight(t)

\* mst_prim has returned on a connected graph with a cycle, a negative edge,
\* two edges of equal weight and a spanning tree heavier than the result.
C12_Witness ==
    /\ pc = "mst_done"
    /\ Connected(nodes, edges)
    /\ Cardinality(edges) >= Cardinality(nodes)
    /\ \E e \in edges : e.weight < 0
    /\ \E e \in edges, f \in edges : e # f /\ e.weight = f.weight
    /\ \E t \in SpanningTrees(nodes, edges) :
          TotalWeight(t) > TotalWeight(mst_edges)

\* The orthogonal neighbours of p labelled Path in the current Grid.
PathNeighbours(p) ==
    {q \in AllPos : Adjacent(p, q) /\ get(q.x, q.y) = "Path"}

\* C13: every step of loop injection that changes the Grid changes one cell,
\* from Wall to Path; the cell is not on the border and, in the Grid before
\* the step, exactly two of its orthogonal neighbours are Path and the two
\* face each other (left and right, or up and down).
C13_RemovedWallHadOppositePaths ==
    [][(pc = "inject" /\ cells' # cells) =>
          \E p \in AllPos :
             /\ \A i \in DOMAIN cells :
                   (cells'[i] # cells[i]) <=> (i = p.y * width + p.x)
             /\ p.x >= 1 /\ p.x <= width - 2
             /\ p.y >= 1 /\ p.y <= height - 2
             /\ get(p.x, p.y) = "Wall"
             /\ cells'[p.y * width + p.x] = "Path"
             /\ Cardinality(PathNeighbours(p)) = 2
             /\ \/ PathNeighbours(p) = {Pos(p.x - 1, p.y), Pos(p.x + 1, p.y)}
                \/ PathNeighbours(p) = {Pos(p.x, p.y - 1), Pos(p.x, p.y + 1)}
      ]_vars

\* Both passes on an 11 x 7 maze have removed a wall, two different ones.
C13_Witness ==
    /\ pc = "ready"
    /\ width = 11
    /\ Len(removed) = 2
    /\ removed[1] # removed[2]
    /\ get(removed[1].x, removed[1].y) = "Path"
    /\ get(removed[2].x, removed[2].y) = "Path"

\* C14: get(x, y) with x >= width or y >= height fails with an out-of-bounds
\* condition; it never returns the label of a cell.
C14_GetFailsOutOfBounds ==
    (got.called /\ (got.x >= width \/ got.y >= height))
        => got.result = "panic"

\* C15: whenever the route search returns Some(path), the first position of
\* the path is the maze center (width / 2, height / 2).
C15_PathStartsAtCenter ==
    (pc = "found" /\ route.tag = "Some")
        => (Len(route.path) >= 1 /\ route.path[1] = start)

\* The carved cells: the cells off the border that are not Wall.
Carved ==
    {p \in AllPos : /\ p.x >= 1 /\ p.x <= width - 2
                    /\ p.y >= 1 /\ p.y <= height - 2
                    /\ get(p.x, p.y) # "Wall"}

RECURSIVE Flood(_, _)
\* The cells of s joined to those of `from` under orthogonal adjacency.
Flood(from, s) ==
    LET more == from \cup {q \in s : \E p \in from : Adjacent(p, q)}
    IN  IF more = from THEN from ELSE Flood(more, s)

\* The adjacent pairs of cells of s, each counted once.
Links(s) ==
    {pq \in s \X s :
        /\ Adjacent(pq[1], pq[2])
        /\ pq[1].y * width + pq[1].x < pq[2].y * width + pq[2].x}

\* Exactly one simple route between any two cells of s: s is connected and
\* has one adjacency fewer than it has cells.
IsTree(s) ==
    /\ s # {}
    /\ Flood({CHOOSE p \in s : TRUE}, s) = s
    /\ Cardinality(Links(s)) = Cardinality(s) - 1

\* The carver has returned and loop injection has not begun.
CarvingJustEnded == pc = "carve" /\ stack = <<>>

\* C16 as stated: right after carving and before loop injection, the carved
\* cells form a tree under orthogonal adjacency, for every room_size.
C16_CarvedCellsFormTree == CarvingJustEnded => IsTree(Carved)

\* C16 as amended: right after carving and before loop injection, the carved
\* cells form a tree under orthogonal adjacency when room_size is 1, the room
\* being the center cell alone.
C16_CarvedCellsFormTreeRoomOne ==
    (CarvingJustEnded /\ room_size = 1) => IsTree(Carved)

\* The carver has returned on a 7 x 7 maze with room_size 1: nine lattice
\* cells and the eight cells that join them.
C16_Witness ==
    /\ CarvingJustEnded
    /\ room_size = 1
    /\ width = 7
    /\ Cardinality(Carved) = 17
    /\ Cardinality(Links(Carved)) = 16

\* The lattice cells: at an even offset from the center in both coordinates,
\* off the border.
Lattice ==
    {p \in AllPos : /\ p.x >= 1 /\ p.x <= width - 2
                    /\ p.y >= 1 /\ p.y <= height - 2
                    /\ (p.x - center_x) % 2 = 0
                    /\ (p.y - center_y) % 2 = 0}

\* The carver has returned with every lattice cell visited and Path.
LatticeCarved ==
    /\ CarvingJustEnded
    /\ visited = Lattice
    /\ \A p \in Lattice : get(p.x, p.y) = "Path"

\* C17: once started, the carver comes to an empty stack whatever it draws;
\* a cell it pushes as the next cell is a lattice cell it has not visited
\* before, so no cell is visited twice; and when the stack is empty every
\* lattice cell has been visited and is labelled Path.
C17_CarverTerminates ==
    /\ (pc = "carve") ~> LatticeCarved
    /\ [](CarvingJustEnded => LatticeCarved)
    /\ [][(pc = "carve" /\ Len(stack') > Len(stack)) =>
             LET next == stack'[Len(stack')]
             IN  /\ next \in Lattice
                 /\ next \notin visited
                 /\ visited' = visited \cup {next}]_vars

\* The carver has returned on the 11 x 7 maze with its fifteen lattice cells
\* visited.
C17_Witness ==
    /\ LatticeCarved
    /\ width = 11
    /\ height = 7
    /\ Cardinality(visited) = 15

\* The candidates of a pass, read off the current Grid: the interior Wall
\* cells whose Path neighbours are the left/right pair or the up/down pair.
WallCandidates ==
    {p \in AllPos :
        /\ p.x >= 1 /\ p.x <= width - 2
        /\ p.y >= 1 /\ p.y <= height - 2
        /\ get(p.x, p.y) = "Wall"
        /\ \/ PathNeighbours(p) = {Pos(p.x - 1, p.y), Pos(p.x + 1, p.y)}
           \/ PathNeighbours(p) = {Pos(p.x, p.y - 1), Pos(p.x, p.y + 1)}}

\* C18: loop injection converts at most floor((width + height) / 8) Wall
\* cells to Path. A pass that finds a candidate in the Grid as it then is
\* converts exactly one of the candidates; a pass that finds none changes
\* nothing.
C18_InjectionBounded ==
    /\ [](Len(removed) <= (width + height) \div 8)
    /\ [][pc = "inject" =>
             IF WallCandidates = {}
             THEN cells' = cells /\ removed' = removed
             ELSE \E p \in WallCandidates :
                     /\ cells' = [cells EXCEPT ![p.y * width + p.x] = "Path"]
                     /\ removed' = Append(removed, p)]_vars

\* Generation has ended on a maze with room_size 3 whose single pass found no
\* candidate and removed nothing.
C18_Witness ==
    /\ pc = "ready"
    /\ generated
    /\ (width + height) \div 8 = 1
    /\ room_size = 3
    /\ passes_left = 0
    /\ removed = <<>>

\* The position of index i of the flat vector.
PosOf(i) == Pos(i % width, i \div width)

\* The cells generate() carved as the central room.
RoomCells == {Pos(px, py) : px \in RoomRangeX, py \in RoomRangeY}

\* C19: during and after place_artifacts(r), a cell whose label differs from
\* the one it had when the call began was Path, lies outside the central
\* room and now holds a reward or danger label; so Wall cells, the Exit and
\* the room keep their labels, and the same cells are traversable as before.
C19_OnlyCorridorPathsChange ==
    (art.phase # "none") =>
        /\ DOMAIN cells = DOMAIN before
        /\ \A i \in DOMAIN cells :
              cells[i] # before[i] =>
                  /\ before[i] = "Path"
                  /\ PosOf(i) \notin RoomCells
                  /\ IsArtifact(cells[i])
        /\ {i \in DOMAIN cells : cells[i] \in TRAVERSABLE}
               = {i \in DOMAIN before : before[i] \in TRAVERSABLE}

\* A call has returned after placing a reward and a danger on Path cells
\* outside the room, on a Grid with a Path cell in the room.
C19_Witness ==
    /\ pc = "placed"
    /\ art.reward_placed = 1
    /\ art.danger_placed >= 1
    /\ \E p \in RoomCells : get(p.x, p.y) = "Path"
    /\ cells # before

\* The Path cells of the Grid as place_artifacts found it.
PathCountBefore == Cardinality({i \in DOMAIN before : before[i] = "Path"})

RewardCells == {p \in AllPos : get(p.x, p.y) \in Range(REWARDS)}
DangerCells == {p \in AllPos : get(p.x, p.y) \in Range(DANGERS)}

\* C20: with P the Path cells of the whole Grid before the call, room
\* included, and target = floor(r * P), place_artifacts(r) places at most
\* floor(target * 0.4) rewards and at most target - floor(target * 0.4)
\* dangers; when the candidates run out first it returns with fewer.
C20_PlacementWithinQuota ==
    (art.phase # "none") =>
        LET target == (PathCountBefore * art.fill_ratio[1])
                          \div art.fill_ratio[2]
            rewards == (target * 2) \div 5
        IN  /\ Cardinality(RewardCells) <= rewards
            /\ Cardinality(DangerCells) <= target - rewards
            /\ (pc = "placed" =>
                   \/ Cardinality(DangerCells) = target - rewards
                   \/ art.valid_positions \subseteq art.occupied_and_adjacent)

\* A call asked for one reward and two dangers on three Path cells and has
\* returned with the reward and one danger placed: the candidates ran out.
C20_Witness ==
    /\ pc = "placed"
    /\ PathCountBefore = 3
    /\ art.reward_count = 1
    /\ art.danger_count = 2
    /\ Cardinality(RewardCells) = 1
    /\ Cardinality(DangerCells) = 1
    /\ art.valid_positions \subseteq art.occupied_and_adjacent

\* C21: after any sequence of place_artifacts calls on the same generated
\* Grid, two or more, no two cells holding a reward or danger label are
\* orthogonally adjacent.
C21_NeverAdjacentAcrossCalls ==
    \A p \in ArtifactCells, q \in ArtifactCells : ~Adjacent(p, q)

\* The cells of the Grid orthogonally adjacent to p that are not Wall.
OpenNeighbours(p) ==
    {q \in {Pos(p.x + 1, p.y), Pos(p.x - 1, p.y), Pos(p.x, p.y + 1),
            Pos(p.x, p.y - 1)} :
        InGrid(q.x, q.y) /\ get(q.x, q.y) # "Wall"}

RECURSIVE WalkWeights(_, _, _, _, _)
\* The weights of the walks that have come to p with weight w over the cells
\* of vis and go on to b through cells that are neither Wall nor nodes,
\* stepping on no cell twice: the sums of the labels stepped into.
WalkWeights(ns, p, vis, w, b) ==
    IF p = b
    THEN {w}
    ELSE IF IsNode(ns, p)
         THEN {}
         ELSE UNION {WalkWeights(ns, q, vis \cup {p},
                                 w + weight(get(q.x, q.y)), b) :
                     q \in OpenNeighbours(p) \ (vis \cup {p})}

\* The weights of the corridors from node cell a to node cell b.
CorridorWeights(ns, a, b) ==
    UNION {WalkWeights(ns, q, {a}, weight(get(q.x, q.y)), b) :
           q \in OpenNeighbours(a)}

\* C22: every edge (a, b, w) of build_graph has a < b, and some corridor of
\* non-Wall, non-node cells leads from node a's cell to node b's cell with the
\* labels stepped into, node b's own included and node a's not, summing to w.
C22_EdgeIsCorridorWithWeight ==
    pc = "graph" =>
        \A e \in edges :
            /\ e.start_id < e.end_id
            /\ \E a \in nodes, b \in nodes :
                  /\ a.id = e.start_id
                  /\ b.id = e.end_id
                  /\ e.weight \in CorridorWeights(nodes, a.pos, b.pos)

\* build_graph has returned a graph with an edge of negative weight, an edge
\* of weight 7 or more, and two edges between the same two nodes.
C22_Witness ==
    /\ pc = "graph"
    /\ \E e \in edges : e.weight < 0
    /\ \E e \in edges : e.weight >= 7
    /\ \E e \in edges, f \in edges :
          e # f /\ e.start_id = f.start_id /\ e.end_id = f.end_id

\* C23: on a disconnected graph mst_prim comes to its return; what it returns
\* is a subset of the graph's edges that joins exactly the nodes reachable
\* from the center node with one edge fewer than there are such nodes, hence
\* without a cycle; and every edge it adds has, when added, exactly one
\* endpoint visited and the least weight among such edges.
C23_PartialForestOnDisconnected ==
    /\ (pc = "mst" /\ ~Connected(nodes, edges)) ~> (pc = "mst_done")
    /\ []((pc = "mst_done" /\ ~Connected(nodes, edges)) =>
             /\ mst_edges \subseteq edges
             /\ Reach({0}, mst_edges) = Reach({0}, edges)
             /\ Cardinality(mst_edges)
                   = Cardinality(Reach({0}, edges)) - 1)
    /\ [][(pc = "mst" /\ ~Connected(nodes, edges)
              /\ mst_edges' # mst_edges) =>
             \E e \in edges :
                /\ mst_edges' = mst_edges \cup {e}
                /\ (e.start_id \in mst_visited) # (e.end_id \in mst_visited)
                /\ \A f \in edges :
                      ((f.start_id \in mst_visited)
                          # (f.end_id \in mst_visited))
                      => e.weight <= f.weight]_vars

\* mst_prim has returned two edges on a graph whose exit node no corridor
\* reaches.
C23_Witness ==
    /\ pc = "mst_done"
    /\ ~Connected(nodes, edges)
    /\ Cardinality(nodes) = 4
    /\ Cardinality(mst_edges) = 2
    /\ Reach({0}, edges) # NodeIds(nodes)

\* `s` is the tail end of `t`.
IsSuffix(s, t) ==
    /\ Len(s) <= Len(t)
    /\ SubSeq(t, Len(t) - Len(s) + 1, Len(t)) = s

\* C24: each iteration of the route search removes the most recently added
\* entry, the one at index 0 of the work list where insert(0, ..) puts new
\* entries, and leaves the older entries behind it in place (LIFO order, a
\* depth-first traversal).
C24_RemovesMostRecent ==
    [][(pc = "search" /\ queue # <<>>) => IsSuffix(Tail(queue), queue')]_vars

\* C25: while the route search runs, no position is in the work list twice:
\* each position is marked visited when added and is never added again.
C25_NoPositionAddedTwice ==
    pc = "search" =>
       \A i \in DOMAIN queue, j \in DOMAIN queue :
          i # j => queue[i].pos # queue[j].pos

TraversableCells == {p \in AllPos : get(p.x, p.y) \in TRAVERSABLE}

\* Some Exit cell is joined to the center by traversable cells; the center
\* itself counts as passable whatever it holds.
ExitReachable ==
    ExitCells \cap Flood({start}, TraversableCells \cup {start}) # {}

\* C26: whatever the Grid holds, the route search returns None exactly when
\* no Exit cell is reachable from the center through traversable cells, and
\* Some(path) otherwise.
C26_NoneIffUnreachable ==
    SearchEnded => ((route.tag = "None") <=> ~ExitReachable)

\* C27: whatever the Grid holds, a returned path is a walk: every position
\* on it holds a non-Wall cell, consecutive positions are orthogonally
\* adjacent, and no position occurs twice.
C27_PathIsWalk ==
    pc = "found" =>
       /\ \A i \in DOMAIN route.path :
             get(route.path[i].x, route.path[i].y) # "Wall"
       /\ \A i \in 1..(Len(route.path) - 1) :
             Adjacent(route.path[i], route.path[i + 1])
       /\ \A i \in DOMAIN route.path, j \in DOMAIN route.path :
             i # j => route.path[i] # route.path[j]

\* The positions the route search starts from: the center and every room
\* edge cell with a traversable neighbour outside the room.
Seeds == {start} \cup {p \in AllPos : InRoom(p.x, p.y) /\ LeadsOutside(p)}

RECURSIVE StepsToExit(_, _, _)
\* The number of steps of a shortest walk through traversable cells from a
\* cell of `frontier` to an Exit cell, -1 if there is none; `reached` holds
\* the cells fewer than n steps away and `frontier` those n steps away.
StepsToExit(frontier, reached, n) ==
    IF frontier \cap ExitCells # {}
    THEN n
    ELSE IF frontier = {}
         THEN -1
         ELSE StepsToExit({q \in TraversableCells \ (reached \cup frontier) :
                              \E p \in frontier : Adjacent(p, q)},
                          reached \cup frontier, n + 1)

\* C28: after generate(), the path the route search returns begins at a seed
\* and has the least number of cells of all walks from any seed to the Exit.
C28_PathIsShortest ==
    (generated /\ pc = "found") =>
       /\ route.path[1] \in Seeds
       /\ Len(route.path) = StepsToExit(Seeds, {}, 0) + 1

\* A route has been returned that begins at a seeded room edge cell, on a
\* Grid where the walks from the center are longer.
C28_Witness ==
    /\ generated
    /\ pc = "found"
    /\ route.path[1] # start
    /\ Cardinality(Seeds) >= 3
    /\ Len(route.path) >= 3
    /\ StepsToExit({start}, {}, 0) + 1 > Len(route.path)

BorderCells ==
    {p \in AllPos : p.x = 0 \/ p.x = width - 1 \/ p.y = 0 \/ p.y = height - 1}

\* C29: when the room lies inside the interior, in every state during and
\* after generate() and during and after every place_artifacts call, every
\* border cell other than the Exit holds Wall.
C29_BorderStaysWall ==
    RoomIsInterior =>
       \A p \in BorderCells : get(p.x, p.y) \in {"Wall", "Exit"}

\* place_artifacts has returned with an artifact on a cell next to the
\* border of a generated Grid.
C29_Witness ==
    /\ generated
    /\ pc = "placed"
    /\ RoomIsInterior
    /\ \E p \in ArtifactCells :
          \E b \in BorderCells : Adjacent(p, b) /\ get(b.x, b.y) = "Wall"
    /\ \E p \in BorderCells : get(p.x, p.y) = "Exit"

NonWallCells == {p \in AllPos : get(p.x, p.y) # "Wall"}

\* C30: once generate() has returned, and during and after every later
\* place_artifacts call, every non-Wall cell is joined to the center by
\* non-Wall cells.
C30_AllOpenCellsReachable ==
    (generated /\ pc \in {"ready", "placing", "placed"}) =>
       Flood({start}, NonWallCells) = NonWallCells


\* place_artifacts has returned on a generated Grid: the dangers, the Exit
\* and the Path cells are all among the cells joined to the center.
C30_Witness ==
    /\ generated
    /\ pc = "placed"
    /\ Cardinality(DangerCells) = 2
    /\ ExitCells \subseteq Flood({start}, NonWallCells)
    /\ Cardinality(NonWallCells) >= 15

====
